---- MODULE Spec2Model ----
(***************************************************************************)
(* Verification model of the catalog administration scripts:               *)
(*   - list_assets_ids            (smus_scripts.py)   paginated listing    *)
(*   - republish_asset.py         changeset polling and the batch driver   *)
(*   - add_metadata_form /        (smus_scripts.py)   read-modify-write of *)
(*     add_asset_description                          an asset's forms     *)
(*   - add_glossary_terms.py      two-phase glossary / term loader         *)
(*   - add_metadataform_to_assest.py   metadata backfill driver            *)
(*   - bring_your_own_gdc_assets.py    storage location registration       *)
(* Each script is a separate program, so each has its own specification    *)
(* (SpecList, SpecRepub, FairSpecRepub, SpecForms, SpecGloss,              *)
(* SpecBackfill, SpecImport, and SpecRace for the read-modify-write beside *)
(* another writer) over its own variables; the variables of the other      *)
(* programs stay at their initial values.                                  *)
(***************************************************************************)
EXTENDS Integers, Sequences, FiniteSets, TLC

VARIABLES
    \* ---- list_assets_ids (smus_scripts.py:41-73)
    pages,          \* the remote collection: a sequence of result pages
    asset_ids,      \* the accumulator
    next_token,     \* the token of the last response, or None
    search_tokens,  \* the nextToken parameter of every search request issued
    list_pc,        \* "loop" | "returned" | "off"
    \* ---- republish_asset.py
    main_pc,        \* "list" | "line81" | "loop" | "done" | "crashed" | "off"
    assets_ids,     \* the list returned by list_assets_ids (line 78)
    idx,            \* position of the for loop of line 83 (next index)
    count,          \* the success counter of line 82
    rep_pc,         \* republicar_asset: "idle" | "create" | "wait" | "ret"
    rep_asset,      \* its asset_id argument
    rep_from,       \* its call site: "line81" | "loop"
    rep_outcome,    \* how the try block ended
    elapsed,        \* time.time() - start_time at the loop head
    polls,          \* get_listing calls issued for the current changeset
    status,         \* the status of the last get_listing response
    create_calls,   \* asset of every create_listing_change_set request
    attempts,       \* every finished republicar_asset call
    \* ---- add_metadata_form / add_asset_description (smus_scripts.py:218-342)
    asset,          \* the remote asset: name, description, forms
    form_outcome,   \* how the last call ended
    fetched_legacy, \* whether the asset the last call fetched held a form
                    \* with a typeName key or a mapping content
    \* ---- add_glossary_terms.py
    df,             \* the rows of the CSV file
    glossaries,     \* names of the glossaries of the remote project
    terms,          \* names of the glossaries that hold a term of their name
    gloss_pc,       \* "phase1" | "list" | "phase2" | "done" | "raised" | "off"
    row_i,          \* position of the loop of line 16
    glossary_ids,   \* the result of list_glossary_ids, in dict order
    gloss_i,        \* position of the loop of line 25
    glossary_calls, \* name of every create_glossary request
    term_calls,     \* every create_glossary_term request
    responses,      \* how every create request was answered, in order
    \* ---- add_metadataform_to_assest.py
    bf_df,          \* the rows of the metadata CSV file
    bf_store,       \* the remote assets, in the order list_assets_ids lists them
    bf_pc,          \* "loop" | "forms" | "describe" | "done" | "crashed" | "off"
    bf_i,           \* position of the loop of line 19
    bf_row,         \* the row of line 36
    bf_step,        \* position of the loop of line 70
    bf_log,         \* every create_asset_revision request of the run
    \* ---- bring_your_own_gdc_assets.py: _check_and_register_location
    tables,         \* the storage location of every table of the batch
    lf_resources,   \* the resources of Lake Formation, in listing order
    registered_locations,
                    \* the list of line 204, extended at line 218
    imp_pc,         \* "list" | "loop" | "done" | "raised" | "off"
    imp_i,          \* position of the loop of line 206
    imp_run,        \* number of the current run
    imp_outcomes,   \* how every finished run ended
    register_calls, \* every register_resource request, with its run
    \* ---- add_metadata_form / add_asset_description beside another writer
    remote_asset,   \* the asset in the catalog
    actual_asset,   \* the asset the call in progress fetched (lines 226, 306)
    race_call,      \* the call in progress or last finished, None before
    race_pc,        \* "idle" | "fetched" | "off"
    race_outcome,   \* how the last finished call ended
    window_writes   \* external writes since the last fetch

list_vars == <<pages, asset_ids, next_token, search_tokens, list_pc>>
main_vars == <<main_pc, assets_ids, idx, count>>
rep_vars == <<rep_pc, rep_asset, rep_from, rep_outcome, elapsed, polls, status>>
log_vars == <<create_calls, attempts>>
repub_vars == <<main_vars, rep_vars, log_vars>>
forms_vars == <<asset, form_outcome, fetched_legacy>>
gloss_vars == <<df, glossaries, terms, gloss_pc, row_i, glossary_ids, gloss_i,
                glossary_calls, term_calls, responses>>
backfill_vars == <<bf_df, bf_store, bf_pc, bf_i, bf_row, bf_step, bf_log>>
import_vars == <<tables, lf_resources, registered_locations, imp_pc, imp_i,
                 imp_run, imp_outcomes, register_calls>>
race_vars == <<remote_asset, actual_asset, race_call, race_pc, race_outcome, window_writes>>
vars == <<list_vars, repub_vars, forms_vars, gloss_vars, backfill_vars,
          import_vars, race_vars>>

not_list == <<repub_vars, forms_vars, gloss_vars, backfill_vars, import_vars,
              race_vars>>
not_repub == <<list_vars, forms_vars, gloss_vars, backfill_vars, import_vars,
               race_vars>>
not_forms == <<list_vars, repub_vars, gloss_vars, backfill_vars, import_vars,
               race_vars>>
not_gloss == <<list_vars, repub_vars, forms_vars, backfill_vars, import_vars,
               race_vars>>
not_backfill == <<list_vars, repub_vars, forms_vars, gloss_vars, import_vars,
                  race_vars>>
not_import == <<list_vars, repub_vars, forms_vars, gloss_vars, backfill_vars,
                race_vars>>
not_race == <<list_vars, repub_vars, forms_vars, gloss_vars, backfill_vars,
              import_vars>>

None == "None"

(***************************************************************************)
(* Bounds of the model.                                                    *)
(***************************************************************************)
MaxPages == 3
MaxPageItems == 2
MaxAssets == 2
MaxForms == 1
MaxKeys == 2
MaxRows == 2
MaxTables == 2
MaxRuns == 2
MaxExternalWrites == 2

AssetIds == {"a1", "a2"}

RECURSIVE SeqsUpTo(_, _)
SeqsUpTo(S, n) ==
    IF n = 0 THEN {<<>>}
    ELSE LET shorter == SeqsUpTo(S, n - 1)
         IN shorter \cup {Append(s, x) : s \in {t \in shorter : Len(t) = n - 1}, x \in S}

RECURSIVE Concat(_)
Concat(ss) == IF ss = <<>> THEN <<>> ELSE Head(ss) \o Concat(Tail(ss))

\* A continuation token is an opaque non-empty value, here <<i>> naming the
\* page it continues with; the absent token (None) is the empty value.
NoToken == <<>>

(***************************************************************************)
(* The state of a program that a specification does not run.               *)
(***************************************************************************)
InitListOff ==
    /\ pages = <<>>
    /\ asset_ids = <<>>
    /\ next_token = NoToken
    /\ search_tokens = <<>>
    /\ list_pc = "off"

InitRepubOff ==
    /\ main_pc = "off"
    /\ assets_ids = <<>>
    /\ idx = 0
    /\ count = 0
    /\ rep_pc = "idle"
    /\ rep_asset = None
    /\ rep_from = None
    /\ rep_outcome = None
    /\ elapsed = 0
    /\ polls = 0
    /\ status = None
    /\ create_calls = <<>>
    /\ attempts = <<>>

InitFormsOff ==
    /\ asset = None
    /\ form_outcome = "off"
    /\ fetched_legacy = FALSE

InitGlossOff ==
    /\ df = <<>>
    /\ glossaries = {}
    /\ terms = {}
    /\ gloss_pc = "off"
    /\ row_i = 0
    /\ glossary_ids = <<>>
    /\ gloss_i = 0
    /\ glossary_calls = <<>>
    /\ term_calls = <<>>
    /\ responses = <<>>

InitBackfillOff ==
    /\ bf_df = <<>>
    /\ bf_store = <<>>
    /\ bf_pc = "off"
    /\ bf_i = 0
    /\ bf_row = None
    /\ bf_step = 0
    /\ bf_log = <<>>

InitImportOff ==
    /\ tables = <<>>
    /\ lf_resources = <<>>
    /\ registered_locations = <<>>
    /\ imp_pc = "off"
    /\ imp_i = 0
    /\ imp_run = 0
    /\ imp_outcomes = <<>>
    /\ register_calls = <<>>

InitRaceOff ==
    /\ remote_asset = None
    /\ actual_asset = None
    /\ race_call = None
    /\ race_pc = "off"
    /\ race_outcome = None
    /\ window_writes = 0

(***************************************************************************)
(* list_assets_ids: the search service and the pagination loop.            *)
(***************************************************************************)
\* A page is the list of its items' asset identifiers; a response without an
\* "items" key contributes nothing and is the empty page.
PageSet == SeqsUpTo(AssetIds, MaxPageItems)

PageLists == SeqsUpTo(PageSet, MaxPages) \ {<<>>}

\* The continuation token the service puts in the response for page i: the
\* token of the next page, or none on the last page.
TokenOfPage(ps, i) == IF i < Len(ps) THEN <<i + 1>> ELSE NoToken

\* The page the service answers with: the first page for a request without
\* nextToken, the page the token names otherwise.
PageRequested(token) == IF token = NoToken THEN 1 ELSE token[1]

\* smus_scripts.py:59-60: nextToken is attached only when next_token is truthy.
RequestToken(token) == IF token # NoToken THEN token ELSE NoToken

\* smus_scripts.py:64-67
ExtendIds_Replace(acc, page) == page

ExtendIds(acc, page) == acc \o page

\* One iteration of the while loop of smus_scripts.py:52-71.
ListSearch ==
    /\ list_pc = "loop"
    /\ LET sent == RequestToken(next_token)
           i == PageRequested(sent)
           tok == TokenOfPage(pages, i)
       IN /\ search_tokens' = Append(search_tokens, sent)
          /\ asset_ids' = ExtendIds(asset_ids, pages[i])
          /\ next_token' = tok
          /\ list_pc' = IF tok = NoToken THEN "returned" ELSE "loop"
    /\ UNCHANGED <<pages, not_list>>

InitList ==
    /\ pages \in PageLists
    /\ asset_ids = <<>>
    /\ next_token = NoToken
    /\ search_tokens = <<>>
    /\ list_pc = "loop"
    /\ InitRepubOff
    /\ InitFormsOff
    /\ InitGlossOff
    /\ InitBackfillOff
    /\ InitImportOff
    /\ InitRaceOff

NextList == ListSearch

SpecList == InitList /\ [][NextList]_vars

RECURSIVE SumLen(_)
SumLen(ss) == IF ss = <<>> THEN 0 ELSE Len(Head(ss)) + SumLen(Tail(ss))

\* C5: list_assets_ids issues one search request per page, in order, the first
\* without a token and each later one with the token of the preceding
\* response; the accumulator is the concatenation of the pages read so far;
\* the loop has returned exactly when the page without a token has been read,
\* and the result then holds as many identifiers as all pages together.

C5_PaginationAccumulatesAllPages ==
    list_pc # "off" =>
        /\ Len(search_tokens) <= Len(pages)
        /\ \A k \in 1..Len(search_tokens) :
              search_tokens[k] = IF k = 1 THEN <<>> ELSE <<k>>
        /\ asset_ids = Concat(SubSeq(pages, 1, Len(search_tokens)))
        /\ (list_pc = "returned") <=> (Len(search_tokens) = Len(pages))
        /\ list_pc = "returned" => Len(asset_ids) = SumLen(pages)

C5_Witness ==
    /\ list_pc = "returned"
    /\ Len(pages) = 3
    /\ Len(search_tokens) = 3
    /\ pages[2] = <<>>
    /\ Len(asset_ids) = 3

(***************************************************************************)
(* republish_asset.py: _aguardar_changeset_completion, republicar_asset    *)
(* and main.                                                               *)
(***************************************************************************)
\* republish_asset.py:29  (timeout: int = 300, never overridden by the caller)
timeout == 300

\* republish_asset.py:45  time.sleep(1)
PollInterval == 1

\* Seconds a get_listing round trip takes: the environment's choice. One loop
\* iteration lasts the round trip plus the sleep.
Latencies == {0, 149}

\* What get_listing answers: a status (PENDING stands for every status other
\* than the three the code names, a missing status included) or an error.
Statuses == {"ACTIVE", "FAILED", "CANCELLED", "PENDING"}

ApiError == "error"

AssetLists == SeqsUpTo(AssetIds, MaxAssets)

\* republish_asset.py:34
WithinBudget_Inclusive(e) == e <= timeout

WithinBudget(e) == e < timeout

\* republish_asset.py:43
IsFailureStatus_OnlyFailed(s) == s = "FAILED"

IsFailureStatus(s) == s \in {"FAILED", "CANCELLED"}

\* republish_asset.py:78  assets_ids = list_assets_ids(...)
MainListAssets ==
    /\ main_pc = "list"
    /\ \E l \in AssetLists : assets_ids' = l
    /\ main_pc' = "line81"
    /\ UNCHANGED <<idx, count, rep_vars, log_vars, not_repub>>

\* The entry of republicar_asset(asset_id, domain_id) from a call site.
CallRepublicar(asset_id, site) ==
    /\ rep_pc' = "create"
    /\ rep_asset' = asset_id
    /\ rep_from' = site
    /\ UNCHANGED <<rep_outcome, elapsed, polls, status>>

\* republish_asset.py:81  republicar_asset(assets_ids[0], args.domain_id)
\* assets_ids[0] raises IndexError on the empty list and main ends there.
MainLine81 ==
    /\ main_pc = "line81"
    /\ rep_pc = "idle"
    /\ IF assets_ids = <<>>
       THEN /\ main_pc' = "crashed"
            /\ UNCHANGED rep_vars
       ELSE /\ main_pc' = "line81_call"
            /\ CallRepublicar(assets_ids[1], "line81")
    /\ UNCHANGED <<assets_ids, idx, count, log_vars, not_repub>>

\* republish_asset.py:83-84  the for loop takes the next asset, or ends (93).
MainLoop ==
    /\ main_pc = "loop"
    /\ rep_pc = "idle"
    /\ IF idx <= Len(assets_ids)
       THEN /\ main_pc' = "loop_call"
            /\ CallRepublicar(assets_ids[idx], "loop")
       ELSE /\ main_pc' = "done"
            /\ UNCHANGED rep_vars
    /\ UNCHANGED <<assets_ids, idx, count, log_vars, not_repub>>

\* republish_asset.py:57-63  create_listing_change_set(action='PUBLISH'); an
\* error of the call is caught at line 67.
CreateListingChangeSet ==
    /\ rep_pc = "create"
    /\ create_calls' = Append(create_calls, rep_asset)
    /\ \E ok \in BOOLEAN :
          IF ok
          THEN /\ rep_pc' = "wait"
               /\ rep_outcome' = None
          ELSE /\ rep_pc' = "ret"
               /\ rep_outcome' = "create_failed"
    /\ elapsed' = 0
    /\ polls' = 0
    /\ status' = None
    /\ UNCHANGED <<rep_asset, rep_from, main_vars, attempts, not_repub>>

\* republish_asset.py:34-49  one pass of the while loop of
\* _aguardar_changeset_completion: the budget test, get_listing, the branch on
\* the status, the sleep; the raise of line 44 and an error of get_listing are
\* caught at line 46, which breaks to the raise of line 49.
AguardarIteration ==
    /\ rep_pc = "wait"
    /\ IF WithinBudget(elapsed)
       THEN \E resp \in Statuses \cup {ApiError}, lat \in Latencies :
              /\ polls' = polls + 1
              /\ status' = resp
              /\ IF resp = "ACTIVE"
                 THEN /\ rep_pc' = "ret"
                      /\ rep_outcome' = "returned_true"
                      /\ UNCHANGED elapsed
                 ELSE IF resp = ApiError \/ IsFailureStatus(resp)
                 THEN /\ rep_pc' = "ret"
                      /\ rep_outcome' = "raised"
                      /\ UNCHANGED elapsed
                 ELSE /\ elapsed' = elapsed + lat + PollInterval
                      /\ UNCHANGED <<rep_pc, rep_outcome>>
       ELSE /\ rep_pc' = "ret"
            /\ rep_outcome' = "raised"
            /\ UNCHANGED <<elapsed, polls, status>>
    /\ UNCHANGED <<rep_asset, rep_from, main_vars, log_vars, not_repub>>

\* republish_asset.py:66 and 69: the value republicar_asset returns.
RepublicarResult(outcome) == outcome = "returned_true"

\* republish_asset.py:86-87
CountAfter_Always(c, success) == c + 1

CountAfter(c, success) == IF success THEN c + 1 ELSE c

\* republish_asset.py:66-69 and the caller's continuation: line 82 after the
\* call of line 81 (its result is dropped), lines 86-91 after the call of
\* line 84.
RepublicarReturn ==
    /\ rep_pc = "ret"
    /\ LET success == RepublicarResult(rep_outcome)
       IN /\ attempts' = Append(attempts,
                 [asset |-> rep_asset, site |-> rep_from, success |-> success])
          /\ IF rep_from = "line81"
             THEN /\ count' = 0
                  /\ idx' = 1
             ELSE /\ count' = CountAfter(count, success)
                  /\ idx' = idx + 1
    /\ main_pc' = "loop"
    /\ rep_pc' = "idle"
    /\ rep_asset' = None
    /\ rep_from' = None
    /\ rep_outcome' = None
    /\ elapsed' = 0
    /\ polls' = 0
    /\ status' = None
    /\ UNCHANGED <<assets_ids, create_calls, not_repub>>

InitRepub ==
    /\ InitListOff
    /\ InitFormsOff
    /\ InitGlossOff
    /\ InitBackfillOff
    /\ InitImportOff
    /\ InitRaceOff
    /\ main_pc = "list"
    /\ assets_ids = <<>>
    /\ idx = 0
    /\ count = 0
    /\ rep_pc = "idle"
    /\ rep_asset = None
    /\ rep_from = None
    /\ rep_outcome = None
    /\ elapsed = 0
    /\ polls = 0
    /\ status = None
    /\ create_calls = <<>>
    /\ attempts = <<>>

NextRepub ==
    \/ MainListAssets
    \/ MainLine81
    \/ MainLoop
    \/ CreateListingChangeSet
    \/ AguardarIteration
    \/ RepublicarReturn

SpecRepub == InitRepub /\ [][NextRepub]_vars

\* The script is one sequential process: whenever a step is possible it is
\* eventually taken.
FairSpecRepub == SpecRepub /\ WF_vars(NextRepub)

GetListingCalled == polls' = polls + 1

\* C1: once a get_listing poll has answered FAILED or CANCELLED, the wait has
\* ended by raising (it is never marked as returned with success), and no
\* further get_listing call is issued for that changeset.
C1_FailureStatusStopsPolling ==
    /\ [](status \in {"FAILED", "CANCELLED"} =>
            (rep_pc = "ret" /\ rep_outcome = "raised"))
    /\ [][(status \in {"FAILED", "CANCELLED"}) =>
            (~GetListingCalled /\ rep_outcome' # "returned_true")]_vars

C1_Witness ==
    /\ status = "CANCELLED"
    /\ polls = 2
    /\ rep_pc = "ret"
    /\ rep_outcome = "raised"

\* C2: the wait always ends; a poll is issued only while the elapsed time is
\* below the budget; ACTIVE observed by such a poll ends the wait with
\* success, and success is reported in no other case; when every poll
\* answered a non-terminal status the wait ends by raising, and only once the
\* budget is used up.
C2_WaitTerminatesWithinBudget ==
    /\ [](rep_outcome = "returned_true" =>
            (status = "ACTIVE" /\ elapsed < 300))
    /\ []((rep_pc = "ret" /\ status = "PENDING") =>
            (rep_outcome = "raised" /\ elapsed >= 300))
    /\ [][GetListingCalled => elapsed < 300]_vars
    /\ [][(GetListingCalled /\ status' = "ACTIVE") =>
            (rep_pc' = "ret" /\ rep_outcome' = "returned_true")]_vars
    /\ (rep_pc = "wait" ~> rep_pc = "ret")

C2_Witness ==
    /\ rep_pc = "ret"
    /\ rep_outcome = "raised"
    /\ status = "PENDING"
    /\ polls = 300
    /\ elapsed = 300

LoopAttempts == SelectSeq(attempts, LAMBDA a : a.site = "loop")

SuccessCount(as) == Cardinality({i \in 1..Len(as) : as[i].success})

\* C3: a failed asset never stops the run. The run ends early only on the
\* empty list (before any asset is attempted); the for loop attempts the
\* listed assets in order and has attempted all of them when the run is done;
\* count is the number of loop iterations whose republicar_asset returned
\* True, so it lies between 0 and the number of assets.
C3_FailuresDoNotStopTheRun ==
    /\ main_pc = "crashed" => (assets_ids = <<>> /\ attempts = <<>>)
    /\ Len(LoopAttempts) <= Len(assets_ids)
    /\ \A i \in 1..Len(LoopAttempts) : LoopAttempts[i].asset = assets_ids[i]
    /\ main_pc = "done" => Len(LoopAttempts) = Len(assets_ids)
    /\ main_pc \in {"loop", "loop_call", "done"} =>
          /\ count = SuccessCount(LoopAttempts)
          /\ 0 <= count /\ count <= Len(assets_ids)

C3_Witness ==
    /\ main_pc = "done"
    /\ Len(assets_ids) = 2
    /\ Len(LoopAttempts) = 2
    /\ ~LoopAttempts[1].success
    /\ LoopAttempts[2].success
    /\ count = 1

Occurrences(seq, x) == Cardinality({i \in 1..Len(seq) : seq[i] = x})

\* C4: a run issues exactly one create_listing_change_set per listed asset
\* (as many per asset id as the id occurs in the list), and completes without
\* error, the empty list included.
C4_OneChangesetPerListedAsset ==
    /\ main_pc # "crashed"
    /\ main_pc = "done" =>
          \A a \in AssetIds :
              Occurrences(create_calls, a) = Occurrences(assets_ids, a)

(***************************************************************************)
(* add_metadata_form and add_asset_description: values.                    *)
(*                                                                         *)
(* A Python dict is the ordered sequence of its <<key, value>> items. A    *)
(* value is a record: py is its Python type ("dict", "str", or "other" for *)
(* None, lists and numbers); for a str, json tells what the text holds (a  *)
(* JSON object, another JSON value, or no JSON at all), kv the items of    *)
(* the object and canonical whether the text is spelled as json.dumps      *)
(* spells it.                                                              *)
(***************************************************************************)
Keys == {"owner", "team"}

ValuesOf(k) == IF k = "owner" THEN {"A", "B"} ELSE {"X"}

Items == {<<k, v>> : k \in Keys, v \in UNION {ValuesOf(kk) : kk \in Keys}}

HasKey(m, k) == \E i \in 1..Len(m) : m[i][1] = k

ValueAt(m, k) == m[CHOOSE i \in 1..Len(m) : m[i][1] = k][2]

\* The dicts over the keys ks with at most MaxKeys items.
MappingsOver(ks) ==
    {m \in SeqsUpTo({it \in Items : it[1] \in ks /\ it[2] \in ValuesOf(it[1])}, MaxKeys) :
        \A i, j \in 1..Len(m) : m[i][1] = m[j][1] => i = j}

\* The contents of the candidates.
Mappings == MappingsOver(Keys)

\* The contents the asset starts with (the calls add the other keys).
InitMappings == MappingsOver({"owner"})

PyDict(m) == [py |-> "dict", json |-> "-", kv |-> m, canonical |-> TRUE]

PyOther == [py |-> "other", json |-> "-", kv |-> <<>>, canonical |-> TRUE]

Str(j, m, c) == [py |-> "str", json |-> j, kv |-> m, canonical |-> c]

\* json.dumps: the canonical text of the value.
json_dumps(v) ==
    IF v.py = "dict" THEN Str("object", v.kv, TRUE) ELSE Str("other", <<>>, TRUE)

\* json.loads raises on a text that holds no JSON.
json_loads_ok(t) == t.py = "str" /\ t.json # "invalid"

json_loads(t) == IF t.json = "object" THEN PyDict(t.kv) ELSE PyOther

\* smus_scripts.py:263  {**existing_content, **new_content}: the keys of the
\* first operand in their order, each with the second operand's value when
\* the second has the key, then the second operand's other keys.
MergeContent_ExistingWins(existing, new) ==
    existing \o SelectSeq(new, LAMBDA it : ~HasKey(existing, it[1]))

MergeContent(existing, new) ==
    [i \in 1..Len(existing) |->
        IF HasKey(new, existing[i][1])
        THEN <<existing[i][1], ValueAt(new, existing[i][1])>>
        ELSE existing[i]]
    \o SelectSeq(new, LAMBDA it : ~HasKey(existing, it[1]))

Types == {"ownership", "dominio_de_dados"}

\* Content of a form as get_asset returns it.
ExistingContents ==
    {PyDict(m) : m \in InitMappings}
    \cup {Str("object", m, c) : m \in InitMappings, c \in BOOLEAN}
    \cup {Str("invalid", <<>>, FALSE), Str("other", <<>>, TRUE)}

ExistingForms ==
    [formName : {"f1"}, typeKey : {"typeName", "typeIdentifier"},
     type : Types, content : ExistingContents]

\* The metadata_form_to_add argument.
CandidateContents ==
    {PyDict(m) : m \in Mappings}
    \cup {Str("object", m, TRUE) : m \in Mappings}
    \cup {Str("invalid", <<>>, FALSE), Str("other", <<>>, TRUE), PyOther}

Candidates ==
    [formName : {"f2"}, typeIdentifier : Types, content : CandidateContents]

Descriptions == {"new"}

(***************************************************************************)
(* add_metadata_form and add_asset_description: the operations.            *)
(***************************************************************************)
\* smus_scripts.py:246-247 and 321-322
NormalizeTypeKey_Swap(key) ==
    IF key = "typeName" THEN "typeIdentifier" ELSE "typeName"

NormalizeTypeKey(key) == IF key = "typeName" THEN "typeIdentifier" ELSE key

\* smus_scripts.py:249-250 and 324-325
NormalizeContent_DropsMapping(content) ==
    IF content.py = "dict" THEN json_dumps(PyDict(<<>>)) ELSE content

NormalizeContent(content) ==
    IF content.py = "dict" THEN json_dumps(content) ELSE content

\* smus_scripts.py:245-252 and 320-327: one form of the loop.
NormalizeForm(form) ==
    [formName |-> form.formName,
     typeKey |-> NormalizeTypeKey(form.typeKey),
     type |-> form.type,
     content |-> NormalizeContent(form.content)]

\* A loop that keeps only the forms that needed no change of key.
NormalizeForms_DropsLegacy(forms) ==
    SelectSeq(forms, LAMBDA form : form.typeKey = "typeIdentifier")

\* smus_scripts.py:242-252 and 317-327: the loop over the fetched forms.
NormalizeForms(forms) == [i \in 1..Len(forms) |-> NormalizeForm(forms[i])]

\* smus_scripts.py:230-237: the candidate's content decodes unless it is a
\* str that holds no JSON.
CandidateDecodes(cand) ==
    cand.content.py # "str" \/ json_loads_ok(cand.content)

NewContent(cand) ==
    IF cand.content.py = "str" THEN json_loads(cand.content) ELSE cand.content

\* smus_scripts.py:256-257: the first form whose typeIdentifier is the target
\* type, 0 when there is none.
MatchIndex_Never(forms, target_type) == 0

\* A scan that looks at the first form only.
MatchIndex_FirstFormOnly(forms, target_type) ==
    IF forms # <<>> /\ forms[1].type = target_type THEN 1 ELSE 0

MatchIndex(forms, target_type) ==
    LET hits == {i \in 1..Len(forms) :
                    forms[i].typeKey = "typeIdentifier" /\ forms[i].type = target_type}
    IN IF hits = {} THEN 0 ELSE CHOOSE i \in hits : \A j \in hits : i <= j

\* smus_scripts.py:258-261: a content that does not decode counts as {}.
ExistingContent(content) ==
    IF json_loads_ok(content) THEN json_loads(content) ELSE PyDict(<<>>)

\* smus_scripts.py:269-273
NewForm(cand) ==
    [formName |-> cand.formName,
     typeKey |-> "typeIdentifier",
     type |-> cand.typeIdentifier,
     content |-> json_dumps(NewContent(cand))]

\* create_asset_revision replaces the asset by the revision: its name, its
\* complete form list and its description.
Revised(request) ==
    [name |-> request.name,
     description |-> request.description,
     forms |-> request.formsInput]

\* smus_scripts.py:275-278
KeptDescription(a) == IF a.description = None THEN "" ELSE a.description

\* smus_scripts.py:218-290: what add_metadata_form does to the asset a it
\* fetches, for the candidate cand: the path taken and the asset afterwards
\* (unchanged when the call raises before create_asset_revision).
AddMetadataFormOn(a, cand) ==
    IF ~CandidateDecodes(cand)
    THEN [outcome |-> "decode_error", asset |-> a]
    ELSE
    LET new_content == NewContent(cand)
        normalized_forms == NormalizeForms(a.forms)
        k == MatchIndex(normalized_forms, cand.typeIdentifier)
        existing_content ==
            IF k = 0 THEN PyDict(<<>>) ELSE ExistingContent(normalized_forms[k].content)
    IN IF k # 0 /\ (existing_content.py # "dict" \/ new_content.py # "dict")
       THEN [outcome |-> "type_error", asset |-> a]
       ELSE
       LET formsInput ==
               IF k # 0
               THEN [normalized_forms EXCEPT ![k].content =
                        json_dumps(PyDict(MergeContent(existing_content.kv,
                                                       new_content.kv)))]
               ELSE Append(normalized_forms, NewForm(cand))
       IN [outcome |-> IF k # 0 THEN "merged" ELSE "appended",
           asset |-> Revised([name |-> a.name,
                              formsInput |-> formsInput,
                              description |-> KeptDescription(a)])]

\* get_asset answers in the legacy shape when a form has a typeName key or a
\* mapping content.
IsLegacy(forms) ==
    \E i \in 1..Len(forms) :
        forms[i].typeKey = "typeName" \/ forms[i].content.py = "dict"

AddMetadataForm(cand) ==
    /\ form_outcome # "off"
    /\ fetched_legacy' = IsLegacy(asset.forms)
    /\ LET r == AddMetadataFormOn(asset, cand)
       IN /\ asset' = r.asset
          /\ form_outcome' = r.outcome
    /\ UNCHANGED not_forms

\* smus_scripts.py:293-342
AddAssetDescriptionOn(a, description) ==
    Revised([name |-> a.name,
             formsInput |-> NormalizeForms(a.forms),
             description |-> description])

AddAssetDescription(description) ==
    /\ form_outcome # "off"
    /\ asset' = AddAssetDescriptionOn(asset, description)
    /\ fetched_legacy' = IsLegacy(asset.forms)
    /\ form_outcome' = "described"
    /\ UNCHANGED not_forms

InitForms ==
    /\ InitListOff
    /\ InitRepubOff
    /\ InitGlossOff
    /\ InitBackfillOff
    /\ InitImportOff
    /\ InitRaceOff
    /\ asset \in [name : {"asset1"},
                  description : {None, "old"},
                  forms : SeqsUpTo(ExistingForms, MaxForms)]
    /\ form_outcome = "none"
    /\ fetched_legacy = FALSE

NextForms ==
    \/ \E cand \in Candidates : AddMetadataForm(cand)
    \/ \E description \in Descriptions : AddAssetDescription(description)

SpecForms == InitForms /\ [][NextForms]_vars

\* The items of a content read as a mapping: of a dict, of a text holding a
\* JSON object; nothing for a text holding no JSON.
ItemsOf(content) ==
    IF content.py = "dict" \/ (content.py = "str" /\ content.json = "object")
    THEN content.kv ELSE <<>>

IsObject(content) ==
    content.py = "dict" \/ (content.py = "str" /\ content.json = "object")

\* A form carried over into a revision: same name and type, the type under
\* the typeIdentifier key, a text content identical to the old text or
\* spelling the old mapping.
CarriedOver(old, new) ==
    /\ new.formName = old.formName
    /\ new.type = old.type
    /\ new.typeKey = "typeIdentifier"
    /\ new.content.py = "str"
    /\ IF old.content.py = "str"
       THEN new.content = old.content
       ELSE new.content.json = "object" /\ new.content.kv = old.content.kv

FirstOfType(forms, t) ==
    CHOOSE i \in 1..Len(forms) :
        forms[i].type = t /\ \A j \in 1..(i - 1) : forms[j].type # t

\* C6: for every asset and candidate: when no existing form has the
\* candidate's type (and the candidate's content decodes), add_metadata_form
\* submits a revision whose form list is the existing list, each form
\* carried over in normalized shape with its content kept, followed by one
\* new form with the candidate's formName and typeIdentifier and its content
\* serialized.
C6_NoMatchAppendsOneForm ==
    form_outcome # "off" =>
    \A cand \in Candidates :
        ( /\ \A i \in 1..Len(asset.forms) : asset.forms[i].type # cand.typeIdentifier
          /\ ~(cand.content.py = "str" /\ cand.content.json = "invalid") )
        => LET r == AddMetadataFormOn(asset, cand)
               submitted == r.asset.forms
               added == submitted[Len(submitted)]
           IN /\ r.outcome = "appended"
              /\ Len(submitted) = Len(asset.forms) + 1
              /\ \A i \in 1..Len(asset.forms) :
                    CarriedOver(asset.forms[i], submitted[i])
              /\ added.formName = cand.formName
              /\ added.type = cand.typeIdentifier
              /\ added.typeKey = "typeIdentifier"
              /\ added.content.py = "str"
              /\ added.content.canonical
              /\ IsObject(added.content) <=> IsObject(cand.content)
              /\ added.content.kv = cand.content.kv

C6_Witness ==
    /\ form_outcome = "appended"
    /\ fetched_legacy
    /\ Len(asset.forms) = 2
    /\ asset.forms[1].formName = "f1"
    /\ asset.forms[2].formName = "f2"
    /\ Len(asset.forms[1].content.kv) = 1
    /\ Len(asset.forms[2].content.kv) = 2

\* C7: for every asset and candidate: when a form of the candidate's type
\* exists (and both contents are mappings, an existing text that holds no
\* JSON counting as empty), add_metadata_form submits a revision whose form
\* list has the old length, the first form of that type holds the
\* shallow merge (every candidate key with the candidate's value, every
\* other existing key with its existing value, no other key) and the other
\* forms are carried over.
C7_MatchMergesCandidateOverExisting ==
    form_outcome # "off" =>
    \A cand \in Candidates :
        ( /\ \E i \in 1..Len(asset.forms) : asset.forms[i].type = cand.typeIdentifier
          /\ IsObject(cand.content)
          /\ LET old == asset.forms[FirstOfType(asset.forms, cand.typeIdentifier)]
             IN IsObject(old.content) \/ old.content.json = "invalid" )
        => LET r == AddMetadataFormOn(asset, cand)
               submitted == r.asset.forms
               k == FirstOfType(asset.forms, cand.typeIdentifier)
               existing == ItemsOf(asset.forms[k].content)
               new == cand.content.kv
               merged == submitted[k].content
           IN /\ r.outcome = "merged"
              /\ Len(submitted) = Len(asset.forms)
              /\ merged.py = "str" /\ merged.json = "object"
              /\ \A key \in Keys :
                    /\ HasKey(merged.kv, key) <=> (HasKey(existing, key) \/ HasKey(new, key))
                    /\ HasKey(new, key) => ValueAt(merged.kv, key) = ValueAt(new, key)
                    /\ (HasKey(existing, key) /\ ~HasKey(new, key)) =>
                          ValueAt(merged.kv, key) = ValueAt(existing, key)
              /\ submitted[k].type = cand.typeIdentifier
              /\ submitted[k].formName = asset.forms[k].formName
              /\ \A i \in 1..Len(asset.forms) :
                    i # k => CarriedOver(asset.forms[i], submitted[i])

C7_Witness ==
    /\ form_outcome = "merged"
    /\ Len(asset.forms) = 1
    /\ asset.forms[1].type = "ownership"
    /\ asset.forms[1].formName = "f1"
    /\ asset.forms[1].content = Str("object", <<<<"team", "X">>, <<"owner", "B">>>>, TRUE)

\* C8: applying add_metadata_form twice with the same candidate leaves the
\* asset with the same form list (same forms, order and content) as applying
\* it once, for every asset and every candidate.
C8_ReapplyingCandidateIsIdempotent ==
    form_outcome # "off" =>
        \A cand \in Candidates :
            LET once == AddMetadataFormOn(asset, cand).asset
                twice == AddMetadataFormOn(once, cand).asset
            IN twice.forms = once.forms

C8_Witness ==
    /\ form_outcome = "merged"
    /\ Len(asset.forms) = 2
    /\ \E cand \in Candidates :
          /\ Len(cand.content.kv) = 2
          /\ asset.forms[2].type = cand.typeIdentifier
          /\ AddMetadataFormOn(asset, cand).outcome = "merged"
          /\ AddMetadataFormOn(asset, cand).asset = asset

\* C9: normalizing a normalized form list changes nothing, whatever keys
\* and contents the forms fetched had; so the list either call submitted is
\* a fixed point of the normalization.
C9_NormalizationIsIdempotent ==
    form_outcome # "off" =>
        /\ NormalizeForms(NormalizeForms(asset.forms)) = NormalizeForms(asset.forms)
        /\ form_outcome \in {"described", "merged", "appended"} =>
              NormalizeForms(asset.forms) = asset.forms

C9_Witness ==
    /\ form_outcome = "described"
    /\ fetched_legacy
    /\ Len(asset.forms) = 1
    /\ asset.forms[1].content.json = "object"

(***************************************************************************)
(* add_glossary_terms.py: main, with add_glossary, list_glossary_ids and   *)
(* add_glossary_term of smus_scripts.py.                                   *)
(***************************************************************************)
\* Names of the CSV rows, and a glossary of the project that no row names.
GlossaryNames == {"PII", "Fin"}

OtherGlossary == "Other"

\* The rows of the CSV file after fillna('').
Rows ==
    [name : GlossaryNames, description : {"d1", "d2"},
     displayName : {"D"}, synonyms : {"S"}, references : {"R"}]

\* The id the catalog gives the glossary of a name.
GlossaryId(name) == <<"id", name>>

\* What create_glossary and create_glossary_term answer.
Created == "created"

ConflictException == "ConflictException"

OtherClientError == "OtherClientError"

\* The catalog refuses a name that exists with ConflictException; any request
\* may fail with another error.
CreateResponses(exists) ==
    IF exists THEN {ConflictException, OtherClientError}
    ELSE {Created, OtherClientError}

\* An except clause that re-raises the conflict as well.
Propagates_ConflictToo(resp) == resp # Created

\* smus_scripts.py:183-187 and 211-215: the except clause swallows the
\* conflict and re-raises everything else.
Propagates(resp) == resp \notin {Created, ConflictException}

\* add_glossary_terms.py:16-17 with add_glossary (smus_scripts.py:168-187):
\* one row of the first loop.
Phase1Row ==
    /\ gloss_pc = "phase1"
    /\ row_i <= Len(df)
    /\ LET glossary_name == df[row_i].name
       IN /\ glossary_calls' = Append(glossary_calls, glossary_name)
          /\ \E resp \in CreateResponses(glossary_name \in glossaries) :
                /\ glossaries' = IF resp = Created
                                 THEN glossaries \cup {glossary_name}
                                 ELSE glossaries
                /\ responses' = Append(responses, resp)
                /\ IF Propagates(resp)
                   THEN gloss_pc' = "raised" /\ UNCHANGED row_i
                   ELSE row_i' = row_i + 1 /\ UNCHANGED gloss_pc
    /\ UNCHANGED <<df, terms, glossary_ids, gloss_i, term_calls, not_gloss>>

RECURSIVE Orderings(_)
Orderings(S) ==
    IF S = {} THEN {<<>>}
    ELSE UNION {{<<x>> \o rest : rest \in Orderings(S \ {x})} : x \in S}

\* add_glossary_terms.py:19-22 with list_glossary_ids (smus_scripts.py:
\* 132-165): after the sleep, the dict name -> id of the glossaries the search
\* returns, in the order of the search. The search index may lag behind the
\* creations, so it returns any part of the project's glossaries.
ListGlossaryIds ==
    /\ gloss_pc = "phase1"
    /\ row_i > Len(df)
    /\ \E found \in SUBSET glossaries :
          \E order \in Orderings(found) :
              glossary_ids' = [k \in 1..Len(order) |->
                                 [name |-> order[k], id |-> GlossaryId(order[k])]]
    /\ gloss_pc' = "phase2"
    /\ gloss_i' = 1
    /\ UNCHANGED <<df, glossaries, terms, row_i, glossary_calls, term_calls,
                   responses, not_gloss>>

\* add_glossary_terms.py:26  df[df['name*'] == name]
DfFilter(rows, name) == SelectSeq(rows, LAMBDA row : row.name = name)

\* The last matching row, which the loader does not use.
Iloc0_Last(df_filter) == df_filter[Len(df_filter)]

\* add_glossary_terms.py:31-42  df_filter.iloc[0]
Iloc0(df_filter) == df_filter[1]

\* add_glossary_terms.py:31-35: the three sections of the readme.
Readme(row) ==
    [displayName |-> row.displayName,
     synonyms |-> row.synonyms,
     references |-> row.references]

\* add_glossary_terms.py:25-43 with add_glossary_term (smus_scripts.py:
\* 190-215): one glossary of the second loop, or the end of the loop.
Phase2Glossary ==
    /\ gloss_pc = "phase2"
    /\ IF gloss_i > Len(glossary_ids)
       THEN /\ gloss_pc' = "done"
            /\ UNCHANGED <<gloss_i, terms, term_calls, responses>>
       ELSE
       LET glossary_id == glossary_ids[gloss_i].id
           df_filter == DfFilter(df, glossary_ids[gloss_i].name)
       IN IF df_filter = <<>>
          THEN /\ gloss_i' = gloss_i + 1
               /\ UNCHANGED <<gloss_pc, terms, term_calls, responses>>
          ELSE
          LET row == Iloc0(df_filter)
              term == <<glossary_id, row.name>>
          IN /\ term_calls' = Append(term_calls,
                    [glossaryIdentifier |-> glossary_id,
                     name |-> row.name,
                     shortDescription |-> row.description,
                     longDescription |-> Readme(row)])
             /\ \E resp \in CreateResponses(term \in terms) :
                   /\ terms' = IF resp = Created THEN terms \cup {term} ELSE terms
                   /\ responses' = Append(responses, resp)
                   /\ IF Propagates(resp)
                      THEN gloss_pc' = "raised" /\ UNCHANGED gloss_i
                      ELSE gloss_i' = gloss_i + 1 /\ UNCHANGED gloss_pc
    /\ UNCHANGED <<df, glossaries, row_i, glossary_ids, glossary_calls, not_gloss>>

InitGloss ==
    /\ InitListOff
    /\ InitRepubOff
    /\ InitFormsOff
    /\ InitBackfillOff
    /\ InitImportOff
    /\ InitRaceOff
    /\ df \in SeqsUpTo(Rows, MaxRows)
    /\ glossaries \in SUBSET (GlossaryNames \cup {OtherGlossary})
    /\ terms \in SUBSET {<<GlossaryId(n), n>> : n \in glossaries}
    /\ gloss_pc = "phase1"
    /\ row_i = 1
    /\ glossary_ids = <<>>
    /\ gloss_i = 0
    /\ glossary_calls = <<>>
    /\ term_calls = <<>>
    /\ responses = <<>>

NextGloss ==
    \/ Phase1Row
    \/ ListGlossaryIds
    \/ Phase2Glossary

SpecGloss == InitGloss /\ [][NextGloss]_vars

\* The create-term requests sent for a glossary id.
TermCallsFor(glossary_id) ==
    SelectSeq(term_calls, LAMBDA c : c.glossaryIdentifier = glossary_id)

\* What the second loop owes the k-th listed glossary: one request built from
\* the first row of its name, or none when no row has its name.
Phase2Handled(k) ==
    LET df_filter == DfFilter(df, glossary_ids[k].name)
        calls == TermCallsFor(glossary_ids[k].id)
    IN IF df_filter = <<>>
       THEN calls = <<>>
       ELSE /\ Len(calls) = 1
            /\ calls[1].name = df_filter[1].name
            /\ calls[1].shortDescription = df_filter[1].description

\* The listed glossaries the second loop has reached: those before the
\* current one, and the current one when its request raised.
Phase2Reached ==
    {k \in 1..Len(glossary_ids) :
        k < gloss_i \/ (k = gloss_i /\ gloss_pc = "raised")}

\* C10 as stated: when the run has ended, every listed glossary with a row of
\* its name has exactly one create-term request, built from the first such
\* row, and every listed glossary without a row has none.
C10_EveryListedGlossaryHandled ==
    gloss_pc \in {"done", "raised"} =>
        \A k \in 1..Len(glossary_ids) : Phase2Handled(k)

\* C10, amended: every listed glossary the second loop reaches has exactly one
\* create-term request built from the first row of its name (the row's name
\* and description), or none when no row has its name; a glossary without a
\* row never ends the loop; the loop reaches every listed glossary unless a
\* create-term request fails with an error other than the conflict, and the
\* glossaries it does not reach get no request.
C10_ReachedGlossariesHandledOnce ==
    /\ \A k \in Phase2Reached : Phase2Handled(k)
    /\ \A k \in (1..Len(glossary_ids)) \ Phase2Reached :
          TermCallsFor(glossary_ids[k].id) = <<>>
    /\ gloss_pc = "done" => Phase2Reached = 1..Len(glossary_ids)
    /\ (gloss_pc = "raised" /\ gloss_i >= 1) =>
          /\ gloss_i <= Len(glossary_ids)
          /\ DfFilter(df, glossary_ids[gloss_i].name) # <<>>
          /\ TermCallsFor(glossary_ids[gloss_i].id) # <<>>

\* A completed run over two listed glossaries: the first has no row and is
\* skipped, the second has two rows with different descriptions and gets
\* one request from the first of them.
C10_Witness ==
    /\ gloss_pc = "done"
    /\ Len(glossary_ids) = 2
    /\ DfFilter(df, glossary_ids[1].name) = <<>>
    /\ Len(DfFilter(df, glossary_ids[2].name)) = 2
    /\ df[1].description # df[2].description
    /\ Len(term_calls) = 1
    /\ term_calls[1].shortDescription = df[1].description

\* A step that sends a create_glossary or a create_glossary_term request.
CreateRequested ==
    glossary_calls' # glossary_calls \/ term_calls' # term_calls

\* The answer to the last create request.
LastResponse == responses[Len(responses)]

\* C11: a create request answered with the conflict error changes nothing in
\* the catalog and the loader goes on, in the same phase, to the next row or
\* glossary; a create request answered with any other error ends the run:
\* the error is the last answer the run received, every answer before it was
\* a success or a conflict, and no create request is issued afterwards.
C11_ConflictIsSuccessOtherErrorsPropagate ==
    /\ [][CreateRequested =>
            /\ Len(responses') = Len(responses) + 1
            /\ (LastResponse' = ConflictException) =>
                  /\ gloss_pc' = gloss_pc
                  /\ glossaries' = glossaries /\ terms' = terms
                  /\ (gloss_pc = "phase1") => (row_i' = row_i + 1)
                  /\ (gloss_pc = "phase2") => (gloss_i' = gloss_i + 1)
            /\ (LastResponse' = OtherClientError) =>
                  /\ gloss_pc' = "raised"
                  /\ glossaries' = glossaries /\ terms' = terms]_vars
    /\ [][(gloss_pc = "raised") =>
            (~CreateRequested /\ gloss_pc' = "raised")]_vars
    /\ [](/\ Len(responses) = Len(glossary_calls) + Len(term_calls)
          /\ \A k \in 1..(Len(responses) - 1) :
                responses[k] \in {Created, ConflictException}
          /\ (gloss_pc = "raised") <=>
                (responses # <<>> /\ LastResponse = OtherClientError))

\* A run that went on after a conflict in each phase and stopped at another
\* error of the second create-term request.
C11_Witness ==
    /\ gloss_pc = "raised"
    /\ responses = <<ConflictException, Created, ConflictException,
                     OtherClientError>>
    /\ Len(glossary_calls) = 2
    /\ Len(term_calls) = 2

\* C12: for every candidate whose content does not decode to a mapping (a
\* text holding no JSON, a text holding a JSON value that is no object, a
\* value that is neither a text nor a mapping), add_metadata_form raises the
\* content-decoding error and submits no revision: the asset is unchanged.
C12_UndecodableCandidateLeavesAssetUnchanged ==
    [][\A cand \in Candidates :
          (AddMetadataForm(cand) /\ ~IsObject(cand.content)) =>
              (form_outcome' = "decode_error" /\ asset' = asset)]_vars

DistinctTypes(forms) ==
    \A i, j \in 1..Len(forms) : forms[i].type = forms[j].type => i = j

\* C14: no call of add_metadata_form or add_asset_description, whatever its
\* candidate or description, turns a form list with pairwise distinct types
\* into one that holds two forms of the same type; hence an asset that starts
\* with distinct types keeps them through any sequence of calls.
C14_FormTypesStayDistinct ==
    [][DistinctTypes(asset.forms) => DistinctTypes(asset'.forms)]_vars

\* Two forms of different types, after a call whose candidate had the type of
\* one of them and was merged into it.
C14_Witness ==
    /\ form_outcome = "merged"
    /\ Len(asset.forms) = 2
    /\ asset.forms[1].type # asset.forms[2].type
    /\ \A i \in 1..2 : asset.forms[i].typeKey = "typeIdentifier"

(***************************************************************************)
(* add_metadataform_to_assest.py: main, the metadata backfill driver, with  *)
(* add_metadata_form and add_asset_description of smus_scripts.py.         *)
(***************************************************************************)
\* The rows of the metadata CSV file (the columns main reads).
BackfillRows ==
    {[nome_tabela |-> "t1", Descricao |-> "d1", Subdomain |-> "s1",
      Domain |-> "dm1", TopDomain |-> "td1", ClassPriv |-> "p1",
      ClassSeg |-> "g1", Owner |-> "A"],
     [nome_tabela |-> "t1", Descricao |-> "d2", Subdomain |-> "s2",
      Domain |-> "dm1", TopDomain |-> "td1", ClassPriv |-> "p2",
      ClassSeg |-> "g1", Owner |-> "B"],
     [nome_tabela |-> "t2", Descricao |-> "d1", Subdomain |-> "s1",
      Domain |-> "dm1", TopDomain |-> "td1", ClassPriv |-> "p1",
      ClassSeg |-> "g1", Owner |-> "A"]}

\* Content of the first form of an asset as get_asset returns it: a text
\* holding an object with or without tableName, the same object as a
\* mapping, or a text holding no JSON.
TableContents ==
    {Str("object", <<<<"tableName", t>>>>, TRUE) : t \in {"t1", "t2"}}
    \cup {Str("object", <<>>, TRUE),
          PyDict(<<<<"tableName", "t1">>>>),
          Str("invalid", <<>>, FALSE)}

TableForms ==
    [formName : {"table"}, typeKey : {"typeIdentifier"}, type : {"table"},
     content : TableContents]

\* An ownership form the asset may hold before the run.
OwnershipForms ==
    [formName : {"ownership"}, typeKey : {"typeIdentifier"},
     type : {"ownership"},
     content : {Str("object", <<<<"owner", "B">>, <<"team", "X">>>>, TRUE),
                Str("other", <<>>, TRUE)}]

\* The assets of the project: no form, the table form, or the table form of
\* t1 followed by an ownership form.
BackfillAssets ==
    [name : {"asset1"}, description : {"old"},
     forms : {<<>>} \cup {<<f>> : f \in TableForms}
             \cup {<<f, o>> : f \in {g \in TableForms :
                                       g.content = Str("object",
                                           <<<<"tableName", "t1">>>>, TRUE)},
                              o \in OwnershipForms}]

\* add_metadataform_to_assest.py:24-25: formsOutput[0] exists and its
\* content is a text that json.loads decodes; line 27 needs a mapping.
ContentExtracts(data) ==
    /\ data.forms # <<>>
    /\ json_loads_ok(data.forms[1].content)
    /\ json_loads(data.forms[1].content).py = "dict"

\* add_metadataform_to_assest.py:27  content.get('tableName')
TableName(data) ==
    LET content == json_loads(data.forms[1].content).kv
    IN IF HasKey(content, "tableName") THEN ValueAt(content, "tableName") ELSE None

\* add_metadataform_to_assest.py:30  df[df['nome_tabela'] == table_name]
BackfillFilter(rows, table_name) ==
    SelectSeq(rows, LAMBDA row : row.nome_tabela = table_name)

\* add_metadataform_to_assest.py:36  row = df_filter.iloc[0]
BackfillRow(df_filter) == df_filter[1]

\* add_metadataform_to_assest.py:42-67: the three forms built from the row.
BackfillForms(row) ==
    <<[formName |-> "dominio_de_dados",
       typeIdentifier |-> "dominio_de_dados",
       content |-> json_dumps(PyDict(<<<<"subdomain", row.Subdomain>>,
                                       <<"domain", row.Domain>>,
                                       <<"top_domain", row.TopDomain>>>>))],
      [formName |-> "seguranca_privacidade",
       typeIdentifier |-> "seguranca_privacidade",
       content |-> json_dumps(PyDict(
                      <<<<"classificacao_privacidade", row.ClassPriv>>,
                        <<"classificacao_seguranca", row.ClassSeg>>>>))],
      [formName |-> "ownership",
       typeIdentifier |-> "ownership",
       content |-> json_dumps(PyDict(<<<<"owner", row.Owner>>>>))]>>

\* add_metadataform_to_assest.py:19-36: the head of one pass of the loop, or
\* the end of the loop. An asset without a first form, or whose first form's
\* content does not decode to a mapping, raises in lines 24-27.
BackfillFetch ==
    /\ bf_pc = "loop"
    /\ IF bf_i > Len(bf_store)
       THEN bf_pc' = "done" /\ UNCHANGED <<bf_i, bf_row, bf_step>>
       ELSE
       LET data == bf_store[bf_i]
       IN IF ~ContentExtracts(data)
          THEN bf_pc' = "crashed" /\ UNCHANGED <<bf_i, bf_row, bf_step>>
          ELSE
          LET df_filter == BackfillFilter(bf_df, TableName(data))
          IN IF df_filter = <<>>
             THEN bf_i' = bf_i + 1 /\ UNCHANGED <<bf_pc, bf_row, bf_step>>
             ELSE /\ bf_row' = BackfillRow(df_filter)
                  /\ bf_step' = 1
                  /\ bf_pc' = "forms"
                  /\ UNCHANGED bf_i
    /\ UNCHANGED <<bf_df, bf_store, bf_log, not_backfill>>

\* add_metadataform_to_assest.py:70-71: one add_metadata_form call; the
\* exception of a call that raises is not caught.
BackfillAddForm ==
    /\ bf_pc = "forms"
    /\ LET form == BackfillForms(bf_row)[bf_step]
           r == AddMetadataFormOn(bf_store[bf_i], form)
       IN IF r.outcome \in {"decode_error", "type_error"}
          THEN /\ bf_pc' = "crashed"
               /\ UNCHANGED <<bf_store, bf_step, bf_log>>
          ELSE /\ bf_store' = [bf_store EXCEPT ![bf_i] = r.asset]
               /\ bf_log' = Append(bf_log,
                      [asset |-> bf_i, op |-> "add_metadata_form",
                       type |-> form.typeIdentifier, request |-> r.asset])
               /\ IF bf_step = Len(BackfillForms(bf_row))
                  THEN bf_pc' = "describe" /\ bf_step' = 0
                  ELSE bf_step' = bf_step + 1 /\ UNCHANGED bf_pc
    /\ UNCHANGED <<bf_df, bf_i, bf_row, not_backfill>>

\* add_metadataform_to_assest.py:39 and 74: add_asset_description with the
\* row's description, then the next asset.
BackfillDescribe ==
    /\ bf_pc = "describe"
    /\ LET revised == AddAssetDescriptionOn(bf_store[bf_i], bf_row.Descricao)
       IN /\ bf_store' = [bf_store EXCEPT ![bf_i] = revised]
          /\ bf_log' = Append(bf_log,
                 [asset |-> bf_i, op |-> "add_asset_description",
                  type |-> None, request |-> revised])
    /\ bf_i' = bf_i + 1
    /\ bf_pc' = "loop"
    /\ UNCHANGED <<bf_df, bf_row, bf_step, not_backfill>>

InitBackfill ==
    /\ InitListOff
    /\ InitRepubOff
    /\ InitFormsOff
    /\ InitGlossOff
    /\ InitImportOff
    /\ InitRaceOff
    /\ bf_df \in SeqsUpTo(BackfillRows, MaxRows)
    /\ bf_store \in SeqsUpTo(BackfillAssets, MaxAssets)
    /\ bf_pc = "loop"
    /\ bf_i = 1
    /\ bf_row = None
    /\ bf_step = 0
    /\ bf_log = <<>>

NextBackfill ==
    \/ BackfillFetch
    \/ BackfillAddForm
    \/ BackfillDescribe

SpecBackfill == InitBackfill /\ [][NextBackfill]_vars

\* The requests of the run for the k-th listed asset.
SubmissionsFor(k) == SelectSeq(bf_log, LAMBDA e : e.asset = k)

\* The form of type t in a submitted revision holds every item of the
\* candidate built from the row.
CarriesCandidate(request, cand) ==
    \E i \in 1..Len(request.forms) :
        /\ request.forms[i].type = cand.typeIdentifier
        /\ \A n \in 1..Len(cand.content.kv) :
              \E m \in 1..Len(request.forms[i].content.kv) :
                  request.forms[i].content.kv[m] = cand.content.kv[n]

\* What the driver owes the k-th listed asset: nothing when no row has the
\* table name of its first form, else three add_metadata_form submissions
\* in the order of the types and one add_asset_description, from the first
\* matching row.
BackfillHandled(k) ==
    LET data == bf_store[k]
        df_filter == IF ContentExtracts(data)
                     THEN BackfillFilter(bf_df, TableName(data)) ELSE <<>>
        subs == SubmissionsFor(k)
    IN IF df_filter = <<>>
       THEN subs = <<>>
       ELSE /\ Len(subs) = 4
            /\ \A j \in 1..3 :
                  /\ subs[j].op = "add_metadata_form"
                  /\ subs[j].type = BackfillForms(df_filter[1])[j].typeIdentifier
                  /\ CarriesCandidate(subs[j].request,
                                      BackfillForms(df_filter[1])[j])
            /\ subs[4].op = "add_asset_description"
            /\ subs[4].request.description = df_filter[1].Descricao

\* C15: the run handles each listed asset: it never stops before the end of
\* the list, and an asset the loop has passed was either skipped without a
\* revision (no row of its table name) or got the three add_metadata_form
\* submissions and the add_asset_description of the first matching row.
C15_EveryListedAssetSkippedOrBackfilled ==
    /\ bf_pc # "crashed"
    /\ \A k \in 1..Len(bf_store) : k < bf_i => BackfillHandled(k)
    /\ bf_pc = "done" => bf_i = Len(bf_store) + 1

(***************************************************************************)
(* bring_your_own_gdc_assets.py: registration of the storage locations.    *)
(*                                                                         *)
(* An S3 path is its scheme, its parts (the bucket, then the keys between  *)
(* the slashes) and whether it ends with a slash; an ARN is its service,   *)
(* the parts after ":::" and the trailing slash.                           *)
(***************************************************************************)
S3Path(parts, slash) == [scheme |-> "s3://", parts |-> parts, slash |-> slash]

\* The Location of a table that has none.
EmptyLocation == [scheme |-> "", parts |-> <<>>, slash |-> FALSE]

\* A bucket, a folder, a folder in the folder, and another folder.
PathParts == {<<"b">>, <<"b", "x">>, <<"b", "x", "y">>, <<"b", "z">>}

\* table['StorageDescriptor']['Location']
Locations ==
    {S3Path(parts, slash) : parts \in PathParts, slash \in BOOLEAN}
    \cup {EmptyLocation}

\* The resources Lake Formation may hold before the first run: S3 locations,
\* spelled with or without the final slash, and a resource that is no S3
\* location.
S3Arns ==
    [service : {"s3"}, parts : PathParts, slash : BOOLEAN]

OtherArn == [service : {"glue"}, parts : {<<"catalog">>}, slash : {FALSE}]

\* str.rstrip('/')
rstrip(path) == [path EXCEPT !.slash = FALSE]

\* bring_your_own_gdc_assets.py:156-158
s3_arn_to_s3_path(arn) ==
    [scheme |-> "s3://", parts |-> rstrip(arn).parts, slash |-> FALSE]

\* bring_your_own_gdc_assets.py:119  the ARN register_resource is given
ResourceArn(s3_path) ==
    [service |-> "s3", parts |-> s3_path.parts, slash |-> s3_path.slash]

\* The location alone, without the paths above it.
get_s3_subpaths_SelfOnly(s3_path) == <<rstrip(s3_path)>>

\* bring_your_own_gdc_assets.py:161-173: s3://bucket, then one path per
\* further part.
get_s3_subpaths(s3_path) ==
    [k \in 1..Len(s3_path.parts) |->
        S3Path(SubSeq(rstrip(s3_path).parts, 1, k), FALSE)]

\* bring_your_own_gdc_assets.py:176-200: the paths of the listed resources
\* whose ARN is an S3 one (the pages of list_resources, concatenated).
get_S3_registered_locations(resources) ==
    LET s3 == SelectSeq(resources, LAMBDA r : r.service = "s3")
    IN [k \in 1..Len(s3) |-> s3_arn_to_s3_path(s3[k])]

InList(x, list) == \E k \in 1..Len(list) : list[k] = x

\* bring_your_own_gdc_assets.py:213  any(path in registered_locations ...)
AlreadyRegistered(subpaths, registered) ==
    \E k \in 1..Len(subpaths) : InList(subpaths[k], registered)

\* bring_your_own_gdc_assets.py:204
ImporterList ==
    /\ imp_pc = "list"
    /\ registered_locations' = get_S3_registered_locations(lf_resources)
    /\ imp_pc' = "loop"
    /\ imp_i' = 1
    /\ UNCHANGED <<tables, lf_resources, imp_run, imp_outcomes, register_calls,
                   not_import>>

\* register_resource succeeds or raises; _register_s3_location re-raises
\* (lines 136-138).
RegisterResponses == {"registered", "error"}

\* bring_your_own_gdc_assets.py:206-218: one table of the loop, or the end of
\* the loop.
ImporterTable ==
    /\ imp_pc = "loop"
    /\ IF imp_i > Len(tables)
       THEN /\ imp_pc' = "done"
            /\ imp_outcomes' = Append(imp_outcomes, "done")
            /\ UNCHANGED <<imp_i, lf_resources, registered_locations,
                           register_calls>>
       ELSE
       LET s3_location == rstrip(tables[imp_i])
       IN IF s3_location = EmptyLocation
             \/ AlreadyRegistered(get_s3_subpaths(s3_location),
                                  registered_locations)
          THEN /\ imp_i' = imp_i + 1
               /\ UNCHANGED <<imp_pc, imp_outcomes, lf_resources,
                              registered_locations, register_calls>>
          ELSE
          /\ register_calls' = Append(register_calls,
                 [run |-> imp_run, table |-> imp_i,
                  ResourceArn |-> ResourceArn(s3_location)])
          /\ \E resp \in RegisterResponses :
                IF resp = "registered"
                THEN /\ lf_resources' =
                           Append(lf_resources, ResourceArn(s3_location))
                     /\ registered_locations' =
                           Append(registered_locations, s3_location)
                     /\ imp_i' = imp_i + 1
                     /\ UNCHANGED <<imp_pc, imp_outcomes>>
                ELSE /\ imp_pc' = "raised"
                     /\ imp_outcomes' = Append(imp_outcomes, "raised")
                     /\ UNCHANGED <<imp_i, lf_resources, registered_locations>>
    /\ UNCHANGED <<tables, imp_run, not_import>>

\* The script is run again on the same tables.
ImporterRerun ==
    /\ imp_pc \in {"done", "raised"}
    /\ imp_run < MaxRuns
    /\ imp_run' = imp_run + 1
    /\ imp_pc' = "list"
    /\ imp_i' = 0
    /\ registered_locations' = <<>>
    /\ UNCHANGED <<tables, lf_resources, imp_outcomes, register_calls,
                   not_import>>

InitImport ==
    /\ InitListOff
    /\ InitRepubOff
    /\ InitFormsOff
    /\ InitGlossOff
    /\ InitBackfillOff
    /\ InitRaceOff
    /\ tables \in SeqsUpTo(Locations, MaxTables)
    /\ lf_resources \in SeqsUpTo(OtherArn, 1) \cup {<<r>> : r \in S3Arns}
                        \cup {<<o, r>> : o \in OtherArn, r \in S3Arns}
    /\ registered_locations = <<>>
    /\ imp_pc = "list"
    /\ imp_i = 0
    /\ imp_run = 1
    /\ imp_outcomes = <<>>
    /\ register_calls = <<>>

NextImport ==
    \/ ImporterList
    \/ ImporterTable
    \/ ImporterRerun

SpecImport == InitImport /\ [][NextImport]_vars

\* The hierarchical path prefixes of a location: the bucket root, each
\* intermediate path, the location itself (none ends with a slash).
Prefixes(location) ==
    {S3Path(SubSeq(location.parts, 1, k), FALSE) : k \in 1..Len(location.parts)}

\* The S3 locations Lake Formation holds: those listed at the start of the
\* run and those the run has registered since.
KnownLocations ==
    {s3_arn_to_s3_path(lf_resources[k]) :
        k \in {n \in 1..Len(lf_resources) : lf_resources[n].service = "s3"}}

\* A step that sends a register_resource request.
RegisterRequested == register_calls' # register_calls

\* C16: when the loop handles a table that has a storage location, it sends
\* a register_resource request, for that location, if and only if no
\* hierarchical prefix of the location is among the locations listed at the
\* start of the run or registered earlier in it (a table without a location
\* is passed over); no location is requested twice in one run; and a run
\* that follows a complete run sends no request.
C16_RegistersIffNoPrefixRegistered ==
    /\ [][(imp_pc = "loop" /\ imp_i <= Len(tables)) =>
            /\ (tables[imp_i] = EmptyLocation) => ~RegisterRequested
            /\ (tables[imp_i] # EmptyLocation) =>
                  (RegisterRequested <=>
                      (Prefixes(tables[imp_i]) \cap KnownLocations = {}))
            /\ RegisterRequested =>
                  /\ Len(register_calls') = Len(register_calls) + 1
                  /\ register_calls'[Len(register_calls')].ResourceArn.parts
                        = tables[imp_i].parts]_vars
    /\ [][(~(imp_pc = "loop" /\ imp_i <= Len(tables))) =>
            ~RegisterRequested]_vars
    /\ [](\A i, j \in 1..Len(register_calls) :
            (i < j /\ register_calls[i].run = register_calls[j].run) =>
                register_calls[i].ResourceArn.parts
                    # register_calls[j].ResourceArn.parts)
    /\ [](\A i \in 1..Len(register_calls) :
            register_calls[i].run > 1 =>
                imp_outcomes[register_calls[i].run - 1] # "done")

\* Two complete runs over a folder and a folder inside it: the first run
\* registered the outer folder only, the second run nothing.
C16_Witness ==
    /\ imp_pc = "done"
    /\ imp_outcomes = <<"done", "done">>
    /\ Len(tables) = 2
    /\ tables[1].parts = <<"b", "x">>
    /\ tables[2].parts = <<"b", "x", "y">>
    /\ Len(register_calls) = 1
    /\ register_calls[1].run = 1
    /\ register_calls[1].table = 1

(***************************************************************************)
(* add_metadata_form and add_asset_description as they run: get_asset and  *)
(* create_asset_revision are two requests, and another writer of the same  *)
(* asset may act before, between and after them.                           *)
(***************************************************************************)
\* The assets the catalog starts with.
RaceForms ==
    {f \in ExistingForms :
        /\ f.type = "ownership"
        /\ f.content \in {PyDict(<<<<"owner", "A">>>>),
                           Str("object", <<<<"owner", "A">>>>, TRUE),
                           Str("invalid", <<>>, FALSE)}}

RaceAssets ==
    [name : {"asset1"}, description : {None, "old"},
     forms : {<<>>} \cup {<<f>> : f \in RaceForms}]

\* The calls: add_metadata_form with a candidate, add_asset_description
\* with a description.
RaceCandidates ==
    {c \in Candidates :
        c.content \in {Str("object", <<<<"team", "X">>>>, TRUE),
                       PyDict(<<<<"owner", "B">>>>),
                       Str("other", <<>>, TRUE)}}

RaceCalls ==
    [op : {"add_metadata_form"}, arg : RaceCandidates]
    \cup [op : {"add_asset_description"}, arg : Descriptions]

\* What the other writer may submit: another description, a form of a type
\* the asset lacks, another content for a form the asset has.
ExternalForm(t) ==
    [formName |-> "ext", typeKey |-> "typeIdentifier", type |-> t,
     content |-> Str("object", <<<<"owner", "E">>>>, TRUE)]

ExternalRevisions(a) ==
    {[a EXCEPT !.description = "ext"]}
    \cup {[a EXCEPT !.forms = Append(@, ExternalForm(t))] :
            t \in {u \in Types : \A i \in 1..Len(a.forms) : a.forms[i].type # u}}
    \cup {[a EXCEPT !.forms[i].content = ExternalForm(a.forms[i].type).content] :
            i \in 1..Len(a.forms)}

\* A request built from what the catalog holds when it is submitted.
RevisionBase_Current(fetched, current) == current

\* smus_scripts.py:226-288 and 306-337: the name, the forms and the
\* description of the request all come from actual_asset, the response of
\* the get_asset at the head of the call.
RevisionBase(fetched, current) == fetched

\* The outcome of a call and the asset it submits, from the asset a.
CallOn(a, c) ==
    IF c.op = "add_metadata_form"
    THEN AddMetadataFormOn(a, c.arg)
    ELSE [outcome |-> "described", asset |-> AddAssetDescriptionOn(a, c.arg)]

\* smus_scripts.py:226 and 306  actual_asset = get_asset(...)
RaceFetch(c) ==
    /\ race_pc = "idle"
    /\ actual_asset' = remote_asset
    /\ race_call' = c
    /\ race_pc' = "fetched"
    /\ window_writes' = 0
    /\ UNCHANGED <<remote_asset, race_outcome, not_race>>

\* smus_scripts.py:230-288 and 316-337: the rest of the call; the request of
\* lines 288 and 337 replaces the asset of the catalog.
RaceSubmit ==
    /\ race_pc = "fetched"
    /\ LET r == CallOn(RevisionBase(actual_asset, remote_asset), race_call)
       IN /\ race_outcome' = r.outcome
          /\ remote_asset' = IF r.outcome \in {"decode_error", "type_error"}
                             THEN remote_asset ELSE r.asset
    /\ race_pc' = "idle"
    /\ UNCHANGED <<actual_asset, race_call, window_writes, not_race>>

\* Another writer submits a revision of the asset.
ExternalWrite ==
    /\ race_pc # "off"
    /\ window_writes < MaxExternalWrites
    /\ remote_asset' \in ExternalRevisions(remote_asset)
    /\ window_writes' = window_writes + 1
    /\ UNCHANGED <<actual_asset, race_call, race_pc, race_outcome, not_race>>

InitRace ==
    /\ InitListOff
    /\ InitRepubOff
    /\ InitFormsOff
    /\ InitGlossOff
    /\ InitBackfillOff
    /\ InitImportOff
    /\ remote_asset \in RaceAssets
    /\ actual_asset = None
    /\ race_call = None
    /\ race_pc = "idle"
    /\ race_outcome = None
    /\ window_writes = 0

NextRace ==
    \/ \E c \in RaceCalls : RaceFetch(c)
    \/ RaceSubmit
    \/ ExternalWrite

SpecRace == InitRace /\ [][NextRace]_vars

\* A step in which the call in progress ends.
CallFinished == race_pc = "fetched" /\ race_pc' = "idle"

\* C17: whatever another writer did to the asset after the call fetched it,
\* the call ends as it would have without that writer: its outcome and the
\* revision it submits are those computed from the fetched asset alone, and
\* the submitted revision becomes the asset of the catalog, replacing what
\* the other writer wrote; a call that raises before submitting leaves the
\* catalog as the other writer left it.
C17_RevisionBuiltFromFetchedStateOverwrites ==
    [][CallFinished =>
          LET r == CallOn(actual_asset, race_call)
          IN /\ race_outcome' = r.outcome
             /\ remote_asset' =
                   IF r.outcome \in {"decode_error", "type_error"}
                   THEN remote_asset ELSE r.asset]_vars

\* Another writer added its form after the fetch; the call then appended
\* its own form to the forms it had fetched, and the catalog holds that
\* revision, without the other writer's form.
C17_Witness ==
    /\ race_pc = "idle"
    /\ race_outcome = "appended"
    /\ window_writes = 1
    /\ actual_asset.forms # <<>>
    /\ Len(remote_asset.forms) = Len(actual_asset.forms) + 1
    /\ \A i \in 1..Len(remote_asset.forms) : remote_asset.forms[i].formName # "ext"
    /\ remote_asset = CallOn(actual_asset, race_call).asset

====
